---- MODULE Spec2Model ----
(***************************************************************************)
(* HamLearn (src/ham-learn/src/App.jsx): question bank parser, flashcard   *)
(* ordering, quiz draw and scoring, daily progress ledger and streak.      *)
(*                                                                         *)
(* Strings are sequences of tokens.  A token is one character (";", " ",   *)
(* "\n", "\r") or an indivisible word ("question_id", "B-001-001", "x").   *)
(* Times are counted in units of 100 s since the epoch (MsPerUnit ms).     *)
(***************************************************************************)
EXTENDS Integers, Sequences, FiniteSets, TLC

VARIABLES
    \* App
    qas,        \* the in-memory bank (useState qas)
    lang,       \* "fr" or "en"
    section,    \* the section filter, "" for all sections
    tab,        \* "flash", "quiz" or "progress": the component mounted
    fetch,      \* the auto-load promise: "none", "pending" or "settled"
    crashed,    \* a render threw: React unmounted the tree
    \* localStorage
    lsBank,     \* hamlearn.bank: <<the bank>>, <<>> when absent
    lsProgress, \* hamlearn.progress: date key -> [seen, correct, streak]
    lsSrs,      \* hamlearn.srs: question_id -> [ease, lastSeen]
    lsPrefs,    \* hamlearn.prefs: [lang, section]
    \* Flashcards (the values of a fresh mount while it is not mounted)
    index, showAnswer, ordered,
    \* Quiz (the values of a fresh mount while it is not mounted)
    nq, answers, showRes, pick,
    \* ProgressDashboard
    data,
    \* Environment
    now,        \* the clock, in time units since the epoch
    tz,         \* the time zone: [before, after |-> offset, at |-> instant]
    \* History, read by the properties only
    steps,      \* the operations done so far, where a specification counts them
    recorded,   \* the last submit since the last new draw: <<[seen, correct
                \* given to bumpProgress, pick, answers, lang at that time]>>
    session,    \* per card of the flashcard session: marks and displays
    \* A pure function checked alone
    call,       \* its argument
    ret         \* <<its result>>, <<>> before the call

appVars == <<qas, lang, section, tab, fetch, crashed, lsBank, lsProgress, lsSrs,
             lsPrefs, index, showAnswer, ordered, nq, answers, showRes, pick,
             data, now, tz, recorded>>

pureVars == <<call, ret>>

vars == <<appVars, steps, session, pureVars>>

(***************************************************************************)
(* Bounds of the model.                                                    *)
(***************************************************************************)
MaxTextLen == 6     \* longest input text of the parser, in tokens
MaxCards == 3       \* longest bank handed to the ordering alone
MaxDraw == 6        \* longest bank handed to the quiz draw alone
MaxSeen == 4        \* most items counted as seen on one day
MaxTicks == 2       \* half days the clock advances in the app specification
MaxOps == 5         \* operations of one run of the app specification
MaxHalfDays == 5    \* half days the clock advances in the streak specification

\* The time unit: timestamps are multiples of MsPerUnit milliseconds
\* (Date.prototype.getTime counts milliseconds).
MsPerUnit == 100000
HourU == 3600000 \div MsPerUnit
DayU == 24 * HourU

(***************************************************************************)
(* Text helpers: String.prototype.trim, String.prototype.split.            *)
(***************************************************************************)
LF == "\n"
CR == "\r"
SP == " "
SEMI == ";"

IsWhitespace(c) == c \in {SP, CR, LF, "\t"}

RECURSIVE TrimStart(_)
TrimStart(s) ==
    IF s # <<>> /\ IsWhitespace(Head(s)) THEN TrimStart(Tail(s)) ELSE s

RECURSIVE TrimEnd(_)
TrimEnd(s) ==
    IF s # <<>> /\ IsWhitespace(s[Len(s)])
    THEN TrimEnd(SubSeq(s, 1, Len(s) - 1))
    ELSE s

Trim(s) == TrimEnd(TrimStart(s))

\* s.split(sep) for a one-token separator: the pieces between the separators,
\* empty pieces kept ("a;" gives "a" and "").
RECURSIVE Split(_, _)
Split(s, sep) ==
    LET at == {i \in 1..Len(s) : s[i] = sep}
    IN  IF at = {} THEN <<s>>
        ELSE LET first == CHOOSE i \in at : \A k \in at : i <= k
             IN  <<SubSeq(s, 1, first - 1)>> \o Split(SubSeq(s, first + 1, Len(s)), sep)

\* text.split(/\r?\n/): the separator is "\n" or "\r\n", so one "\r" right
\* before a "\n" belongs to the separator; the last piece keeps its "\r".
DropSepCR(piece) ==
    IF piece # <<>> /\ piece[Len(piece)] = CR
    THEN SubSeq(piece, 1, Len(piece) - 1)
    ELSE piece

SplitLines(text) ==
    LET raw == Split(text, LF)
    IN  [i \in 1..Len(raw) |-> IF i < Len(raw) THEN DropSepCR(raw[i]) ELSE raw[i]]

(***************************************************************************)
(* parseCSVSemicolon                                                       *)
(***************************************************************************)
fields ==
    << "question_id", "question_english", "correct_answer_english",
       "incorrect_answer_1_english", "incorrect_answer_2_english",
       "incorrect_answer_3_english", "question_french", "correct_answer_french",
       "incorrect_answer_1_french", "incorrect_answer_2_french",
       "incorrect_answer_3_french" >>

FieldNames == {fields[i] : i \in 1..Len(fields)}

\* lines: the non-blank lines of the text.
NonBlankLines(text) == SelectSeq(SplitLines(text), LAMBDA l : Len(Trim(l)) > 0)

\* header: the first line's columns, trimmed.
HeaderOf(lines) ==
    LET h == Split(lines[1], SEMI) IN [i \in 1..Len(h) |-> Trim(h[i])]

\* idx(name): header.findIndex, the first column named name; 0 when there is
\* none (positions count from 1 here, from 0 in the code, where none is -1).
idx(header, name) ==
    LET hits == {i \in 1..Len(header) : header[i] = <<name>>}
    IN  IF hits = {} THEN 0 ELSE CHOOSE i \in hits : \A k \in hits : i <= k

\* Mutant of RowTooShort: the width test forgotten.
RowTooShort_NoTest(cols, header) == FALSE

\* The width test of the data loop: a line with fewer columns than the
\* header is skipped.
RowTooShort(cols, header) == Len(cols) < Len(header)

\* The record built from one data line.
RowOf(cols, header) ==
    [f \in FieldNames |->
        LET j == idx(header, f)
        IN  IF j >= 1 THEN (IF j <= Len(cols) THEN Trim(cols[j]) ELSE <<>>)
            ELSE <<>>]

RECURSIVE ParseRows(_, _, _, _)
ParseRows(lines, header, i, out) ==
    IF i > Len(lines) THEN out
    ELSE LET cols == Split(lines[i], SEMI)
         IN  IF RowTooShort(cols, header)
             THEN ParseRows(lines, header, i + 1, out)
             ELSE LET row == RowOf(cols, header)
                  IN  IF row["question_id"] # <<>>
                      THEN ParseRows(lines, header, i + 1, Append(out, row))
                      ELSE ParseRows(lines, header, i + 1, out)

parseCSVSemicolon(text) ==
    LET lines == NonBlankLines(text)
    IN  IF Len(lines) < 2 THEN <<>>
        ELSE ParseRows(lines, HeaderOf(lines), 2, <<>>)

(***************************************************************************)
(* Flashcards.ordered: the review order                                    *)
(***************************************************************************)
\* Date.prototype.toISOString and new Date(iso).getTime(): the ISO text of an
\* instant names it to the millisecond.
toISOString(t) == <<"ISO", t>>
getTime(iso) == iso[2]

\* A question record with identifier id, the other fields as given.
QARecord(id, rest) ==
    [f \in FieldNames |-> IF f = "question_id" THEN id ELSE rest[f]]

\* The weight of one ease level in score: 1000000000 ms.
EaseWeight == 1000000000 \div MsPerUnit

\* Mutant of score: the last-seen term forgotten.
score_EaseOnly(q, srs) ==
    LET id == q["question_id"]
    IN  (IF id \in DOMAIN srs THEN srs[id].ease ELSE 1) * EaseWeight

\* score(q) = ease * 1000000000 + last, ease 1 and last 0 for a question
\* without an entry.
score(q, srs) ==
    LET id   == q["question_id"]
        ease == IF id \in DOMAIN srs THEN srs[id].ease ELSE 1
        last == IF id \in DOMAIN srs THEN getTime(srs[id].lastSeen) ELSE 0
    IN  ease * EaseWeight + last

\* [...qas].sort((a, b) => score(a) - score(b)): Array.prototype.sort is
\* stable; a record goes after every record whose score is not greater.
RECURSIVE InsertByScore(_, _, _)
InsertByScore(sorted, q, srs) ==
    IF sorted = <<>> THEN <<q>>
    ELSE IF score(Head(sorted), srs) - score(q, srs) <= 0
         THEN <<Head(sorted)>> \o InsertByScore(Tail(sorted), q, srs)
         ELSE <<q>> \o sorted

RECURSIVE SortByScore(_, _, _)
SortByScore(qs, srs, sorted) ==
    IF qs = <<>> THEN sorted
    ELSE SortByScore(Tail(qs), srs, InsertByScore(sorted, Head(qs), srs))

Ordered(qs, srs) ==
    IF Len(qs) = 0 THEN <<>> ELSE SortByScore(qs, srs, <<>>)

(***************************************************************************)
(* shuffle and Quiz.pick: the quiz draw                                    *)
(***************************************************************************)
\* The range input of the quiz: min, max and the initial value of nq.
MinNq == 5
MaxNq == 30
DefaultNq == 10

\* Mutant of SwapAt: a[i] = a[j] without the write back to a[j].
SwapAt_HalfSwap(a, i, j) == [a EXCEPT ![i] = a[j]]

\* [a[i], a[j]] = [a[j], a[i]]
SwapAt(a, i, j) == [a EXCEPT ![i] = a[j], ![j] = a[i]]

\* The loop of shuffle from position i down (positions count from 1 here):
\* j = Math.floor(Math.random() * (i + 1)) is any position up to i.  The
\* value is the set of arrays the loop can end with.
RECURSIVE ShuffleFrom(_, _)
ShuffleFrom(a, i) ==
    IF i > 1
    THEN UNION {ShuffleFrom(SwapAt(a, i, j), i - 1) : j \in 1..i}
    ELSE {a}

\* shuffle(arr): the loop runs on the copy a = [...arr].
shuffle(arr) == ShuffleFrom(arr, Len(arr))

\* The caller's array after shuffle(arr) returned a: the swaps were made on
\* the copy, so it is what it was.
ArgAfterShuffle(arr, a) == arr

Min(a, b) == IF a < b THEN a ELSE b

\* slice(0, n)
Slice(a, n) == SubSeq(a, 1, n)

\* pick = shuffle(qas).slice(0, Math.min(nq, qas.length)): the draws possible.
PickOf(qs, n) == {Slice(a, Min(n, Len(qs))) : a \in shuffle(qs)}

(***************************************************************************)
(* The clock and the time zone: Date in local time and in UTC              *)
(***************************************************************************)
\* 2024-11-02T15:00:00Z, the instant the model starts at.
Epoch2024 == 17305596

\* A zone has one offset before the instant at, another from it on.
UtcZone == [before |-> 0, after |-> 0, at |-> 0]
\* Asia/Tokyo: UTC+9, no daylight saving time.
TokyoZone == [before |-> 9 * HourU, after |-> 9 * HourU, at |-> 0]
\* America/Toronto: UTC-4 until 2024-11-03T06:00:00Z, UTC-5 from then on.
TorontoZone == [before |-> 0 - 4 * HourU, after |-> 0 - 5 * HourU,
                at |-> Epoch2024 + 15 * HourU]

TimeZones == {UtcZone, TokyoZone, TorontoZone}

\* Local time = UTC + OffsetAt(UTC).
OffsetAt(zone, t) == IF t < zone.at THEN zone.before ELSE zone.after

\* The instant of a local wall-clock time.  A wall-clock time that occurs
\* twice or never around the transition is read with the offset before it.
FromLocal(zone, wall) ==
    IF wall - zone.before < zone.at THEN wall - zone.before
    ELSE IF wall - zone.after >= zone.at THEN wall - zone.after
    ELSE wall - zone.before

\* A date key "YYYY-MM-DD" names a calendar day; days are numbered from the
\* epoch.
DateKey(day) == <<"date", day>>

\* todayKey(): the local date (getFullYear, getMonth, getDate) of now.
todayKey(zone, t) == DateKey((t + OffsetAt(zone, t)) \div DayU)

\* new Date("YYYY-MM-DD"): a date-only text is midnight UTC of that day.
DateOfKey(key) == key[2] * DayU

\* dt.toISOString().slice(0, 10): the UTC date of dt.
IsoDateKey(dt) == DateKey(dt \div DayU)

\* dt.setDate(dt.getDate() - 1): the same local wall-clock time one local
\* calendar day earlier.
SetDateBack(zone, dt) == FromLocal(zone, dt + OffsetAt(zone, dt) - DayU)

(***************************************************************************)
(* The stores: localStorage as maps                                        *)
(***************************************************************************)
\* {} : loadJSON's fallback, and what is read after removeItem.
EmptyMap == [k \in {} |-> 0]

Put(m, k, v) == [x \in DOMAIN m \cup {k} |-> IF x = k THEN v ELSE m[x]]

(***************************************************************************)
(* bumpProgress                                                            *)
(***************************************************************************)
\* Mutant of StreakWalk: today counted without looking at its entry.
StreakWalk_TodayCounted(zone, cur, dt) == 1

\* The loop of bumpProgress: from dt backwards while the ledger has an entry
\* with seen # 0 for the UTC date of dt.
RECURSIVE StreakWalk(_, _, _)
StreakWalk(zone, cur, dt) ==
    LET k == IsoDateKey(dt)
    IN  IF k \notin DOMAIN cur \/ cur[k].seen = 0 THEN 0
        ELSE 1 + StreakWalk(zone, cur, SetDateBack(zone, dt))

\* Mutant of DayAfterBump: correct counted as seen.
DayAfterBump_CorrectIsSeen(cur, key, seen, correct) ==
    LET day == IF key \in DOMAIN cur THEN cur[key]
               ELSE [seen |-> 0, correct |-> 0, streak |-> 0]
    IN  [day EXCEPT !.seen = @ + seen, !.correct = @ + seen]

\* today's entry with the amounts added (its streak is set after the walk).
DayAfterBump(cur, key, seen, correct) ==
    LET day == IF key \in DOMAIN cur THEN cur[key]
               ELSE [seen |-> 0, correct |-> 0, streak |-> 0]
    IN  [day EXCEPT !.seen = @ + seen, !.correct = @ + correct]

\* The ledger bumpProgress({seen, correct}) saves, called at instant t.
bumpProgress(zone, t, cur, seen, correct) ==
    LET key    == todayKey(zone, t)
        cur1   == Put(cur, key, DayAfterBump(cur, key, seen, correct))
        streak == StreakWalk(zone, cur1, DateOfKey(todayKey(zone, t)))
    IN  Put(cur1, key, [cur1[key] EXCEPT !.streak = streak])

(***************************************************************************)
(* The files: texts a user imports and texts the server answers with       *)
(***************************************************************************)
RECURSIVE Join(_, _)
Join(pieces, sep) ==
    IF pieces = <<>> THEN <<>>
    ELSE IF Len(pieces) = 1 THEN pieces[1]
    ELSE pieces[1] \o <<sep>> \o Join(Tail(pieces), sep)

HeaderLine == Join([i \in 1..Len(fields) |-> <<fields[i]>>], SEMI)

\* A data line: identifier, then question, correct answer and three
\* incorrect answers in English, then the same in French.
DataLine(id, en, fr) ==
    Join(<<id, <<"Q", en>>, <<en>>, <<"not", en>>, <<"nor", en>>, <<"never", en>>,
               <<"Q", fr>>, <<fr>>, <<"pas", fr>>, <<"ni", fr>>, <<"jamais", fr>>>>, SEMI)

Id1 == <<"B-001-001", "-001">>
Id2 == <<"B-001-002", "-001">>

\* amat_basic_quest_delim.txt as served: two questions of two sections; the
\* answer of the first reads the same in both languages.
ServedFile ==
    Join(<<HeaderLine, DataLine(Id1, "73", "73"), DataLine(Id2, "yes", "oui")>>, LF)

\* A file a user imports: the same questions, the other way round, with
\* Windows line ends.
UserFile ==
    Join(<<HeaderLine \o <<CR>>, DataLine(Id2, "yes", "oui") \o <<CR>>,
           DataLine(Id1, "73", "73") \o <<CR>>>>, LF)

\* A text that is no bank: it parses to zero records.
NoBankFile == <<"<!doctype", SP, "html>", LF>>

ImportTexts == {UserFile, NoBankFile}
ServedTexts == {ServedFile, NoBankFile}

(***************************************************************************)
(* App: derived values                                                     *)
(***************************************************************************)
\* loadJSON(LS_KEYS.bank, [])
LoadBank(ls) == IF ls = <<>> THEN <<>> ELSE ls[1]

\* String.prototype.startsWith
StartsWith(str, prefix) ==
    Len(prefix) <= Len(str) /\ SubSeq(str, 1, Len(prefix)) = prefix

\* filtered: the bank, or its records whose identifier starts with section.
Filtered(qs, sec) ==
    IF sec = <<>> THEN qs
    ELSE SelectSeq(qs, LAMBDA q : StartsWith(q["question_id"], sec))

\* sections: the prefix /^(\w+-\d+-\d+)-/ of each identifier.  An identifier
\* of a file is a section word followed by a word that starts with "-".
Sections(qs) == {<<qs[i]["question_id"][1]>> : i \in 1..Len(qs)}

\* The correct answer in the language shown.
Good(q, l) ==
    IF l = "fr" THEN q["correct_answer_french"] ELSE q["correct_answer_english"]

Incorrect1(q, l) ==
    IF l = "fr" THEN q["incorrect_answer_1_french"]
    ELSE q["incorrect_answer_1_english"]

\* Mutant of CountCorrect: a question without a selected answer counted as
\* correct.
CountCorrect_UnansweredRight(picked, ans, l) ==
    Cardinality({i \in 1..Len(picked) :
        \/ picked[i]["question_id"] \notin DOMAIN ans
        \/ ans[picked[i]["question_id"]] = Good(picked[i], l)})

\* The number of picked questions whose selected answer is the correct one:
\* the forEach of submit, the reduce of ResultsSummary.
CountCorrect(picked, ans, l) ==
    Cardinality({i \in 1..Len(picked) :
        /\ picked[i]["question_id"] \in DOMAIN ans
        /\ ans[picked[i]["question_id"]] = Good(picked[i], l)})

\* ResultsSummary: "correct / total justes".
ResultsSummary(picked, ans, l) ==
    [total |-> Len(picked), correct |-> CountCorrect(picked, ans, l)]

\* Mutant of ShownStreak: the streak of the latest entry of the ledger.
ShownStreak_LatestEntry(zone, t, d) ==
    IF d = EmptyMap THEN 0
    ELSE d[CHOOSE k \in DOMAIN d : \A x \in DOMAIN d : x[2] <= k[2]].streak

\* ProgressDashboard: the streak shown, todayStats?.streak || 0.
ShownStreak(zone, t, d) ==
    IF todayKey(zone, t) \in DOMAIN d THEN d[todayKey(zone, t)].streak ELSE 0

SeenToday ==
    IF todayKey(tz, now) \in DOMAIN lsProgress
    THEN lsProgress[todayKey(tz, now)].seen ELSE 0

flashVars == <<index, showAnswer, ordered>>
quizVars == <<nq, answers, showRes, pick, recorded>>
storeVars == <<lsBank, lsProgress, lsSrs, lsPrefs>>
envVars == <<now, tz>>

\* What a re-render with a new filtered list f does to the mounted
\* component.  Flashcards: ordered is recomputed and ordered[index] is read
\* before the effect resets index; reading a field of undefined throws.
\* Quiz: pick is drawn again, answers and showRes stay.
RenderFiltered(f) ==
    /\ IF tab = "flash"
       THEN LET o == Ordered(f, lsSrs)
            IN  /\ ordered' = o
                /\ IF o # <<>> /\ index >= Len(o)
                   THEN crashed' = TRUE /\ UNCHANGED <<index, showAnswer>>
                   ELSE index' = 0 /\ showAnswer' = FALSE /\ UNCHANGED crashed
       ELSE UNCHANGED <<flashVars, crashed>>
    /\ IF tab = "quiz" THEN pick' \in PickOf(f, nq) ELSE UNCHANGED pick

(***************************************************************************)
(* App: the bank (auto-load, import)                                       *)
(***************************************************************************)
\* The auto-load fetch answered txt with r.ok: the bank is replaced by what
\* parses, whatever it is, and saved.  The callback runs even when the tree
\* is gone; setQAs then does nothing.
FetchOk(txt) ==
    /\ fetch = "pending"
    /\ fetch' = "settled"
    /\ LET parsed == parseCSVSemicolon(txt)
       IN  /\ lsBank' = <<parsed>>
           /\ IF crashed
              THEN UNCHANGED <<qas, flashVars, pick, crashed>>
              ELSE qas' = parsed /\ RenderFiltered(Filtered(parsed, section))
    /\ UNCHANGED <<lang, section, tab, lsProgress, lsSrs, lsPrefs, nq, answers,
                   showRes, recorded, data, envVars>>

\* The fetch failed or answered with r.ok false: the catch does nothing.
FetchFail ==
    /\ fetch = "pending"
    /\ fetch' = "settled"
    /\ UNCHANGED <<qas, lang, section, tab, crashed, storeVars, flashVars,
                   quizVars, data, envVars>>

\* Mutant of ImportAccepted: the length test forgotten.
ImportAccepted_Always(parsed) == TRUE

\* if (parsed.length)
ImportAccepted(parsed) == Len(parsed) > 0

\* Toolbar.onFilePick: the bank is replaced and saved only when the text
\* parses to at least one record.
OnFilePick(txt) ==
    /\ ~crashed
    /\ LET parsed == parseCSVSemicolon(txt)
       IN  IF ImportAccepted(parsed)
           THEN /\ qas' = parsed
                /\ lsBank' = <<parsed>>
                /\ RenderFiltered(Filtered(parsed, section))
           ELSE UNCHANGED <<qas, lsBank, flashVars, pick, crashed>>
    /\ UNCHANGED <<lang, section, tab, fetch, lsProgress, lsSrs, lsPrefs, nq,
                   answers, showRes, recorded, data, envVars>>

\* Toolbar.resetProgress: both stores are removed.
ResetProgress ==
    /\ ~crashed
    /\ lsProgress' = EmptyMap
    /\ lsSrs' = EmptyMap
    /\ UNCHANGED <<qas, lang, section, tab, fetch, crashed, lsBank, lsPrefs,
                   flashVars, quizVars, data, envVars>>

(***************************************************************************)
(* App: language, section, tab                                             *)
(***************************************************************************)
SetLang(l) ==
    /\ ~crashed
    /\ l # lang
    /\ lang' = l
    /\ lsPrefs' = [lang |-> l, section |-> section]
    /\ UNCHANGED <<qas, section, tab, fetch, crashed, lsBank, lsProgress, lsSrs,
                   flashVars, quizVars, data, envVars>>

SetSection(sec) ==
    /\ ~crashed
    /\ sec # section
    /\ section' = sec
    /\ lsPrefs' = [lang |-> lang, section |-> sec]
    /\ RenderFiltered(Filtered(qas, sec))
    /\ UNCHANGED <<qas, lang, tab, fetch, lsBank, lsProgress, lsSrs, nq, answers,
                   showRes, recorded, data, envVars>>

\* A tab button: the component shown is unmounted, the other one mounted
\* with its initial state.
SetTab(t) ==
    /\ ~crashed
    /\ t # tab
    /\ tab' = t
    /\ index' = 0
    /\ showAnswer' = FALSE
    /\ ordered' = IF t = "flash" THEN Ordered(Filtered(qas, section), lsSrs) ELSE <<>>
    /\ nq' = DefaultNq
    /\ answers' = EmptyMap
    /\ showRes' = FALSE
    /\ recorded' = <<>>
    /\ IF t = "quiz" THEN pick' \in PickOf(Filtered(qas, section), DefaultNq)
       ELSE pick' = <<>>
    /\ data' = IF t = "progress" THEN lsProgress ELSE EmptyMap
    /\ UNCHANGED <<qas, lang, section, fetch, crashed, storeVars, envVars>>

(***************************************************************************)
(* App: Flashcards                                                         *)
(***************************************************************************)
\* The card shown: ordered[index].
ShownCard == ordered[index + 1]

\* Mutant of SrsAfterMark: every entry stamped with the new ease.
SrsAfterMark_AllCards(cur, id, ease, t) ==
    [x \in DOMAIN cur \cup {id} |-> [ease |-> ease, lastSeen |-> toISOString(t)]]

\* cur[q.question_id] = { ease, lastSeen: now }
SrsAfterMark(cur, id, ease, t) ==
    Put(cur, id, [ease |-> ease, lastSeen |-> toISOString(t)])

\* Flashcards.mark(ease), ease 1 (Dur), 2 (Correct) or 3 (Facile).
Mark(ease) ==
    /\ ~crashed
    /\ tab = "flash"
    /\ ordered # <<>>
    /\ SeenToday + 1 <= MaxSeen
    /\ lsSrs' = SrsAfterMark(lsSrs, ShownCard["question_id"], ease, now)
    /\ lsProgress' = bumpProgress(tz, now, lsProgress, 1, IF ease >= 2 THEN 1 ELSE 0)
    /\ showAnswer' = FALSE
    /\ index' = (index + 1) % Len(ordered)
    /\ UNCHANGED <<qas, lang, section, tab, fetch, crashed, lsBank, lsPrefs,
                   ordered, quizVars, data, envVars>>

\* "Afficher la réponse"
ShowAnswer ==
    /\ ~crashed
    /\ tab = "flash"
    /\ ordered # <<>>
    /\ ~showAnswer
    /\ showAnswer' = TRUE
    /\ UNCHANGED <<qas, lang, section, tab, fetch, crashed, storeVars, index,
                   ordered, quizVars, data, envVars>>

(***************************************************************************)
(* App: Quiz                                                               *)
(***************************************************************************)
\* The range input: nq changes and pick is drawn again; answers and showRes
\* stay.
SetNq(n) ==
    /\ ~crashed
    /\ tab = "quiz"
    /\ n # nq
    /\ nq' = n
    /\ pick' \in PickOf(Filtered(qas, section), n)
    /\ UNCHANGED <<qas, lang, section, tab, fetch, crashed, storeVars, flashVars,
                   answers, showRes, recorded, data, envVars>>

\* A radio button of the i-th picked question: answers[q.question_id] = opt.
SelectAnswer(i, opt) ==
    /\ ~crashed
    /\ tab = "quiz"
    /\ i \in 1..Len(pick)
    /\ answers' = Put(answers, pick[i]["question_id"], opt)
    /\ UNCHANGED <<qas, lang, section, tab, fetch, crashed, storeVars, flashVars,
                   nq, showRes, pick, recorded, data, envVars>>

\* Quiz.submit ("Valider")
Submit ==
    /\ ~crashed
    /\ tab = "quiz"
    /\ SeenToday + Len(pick) <= MaxSeen
    /\ showRes' = TRUE
    /\ LET seen    == Len(pick)
           correct == CountCorrect(pick, answers, lang)
       IN  /\ lsProgress' = bumpProgress(tz, now, lsProgress, seen, correct)
           /\ recorded' = <<[seen |-> seen, correct |-> correct, pick |-> pick,
                             answers |-> answers, lang |-> lang]>>
    /\ UNCHANGED <<qas, lang, section, tab, fetch, crashed, lsBank, lsSrs, lsPrefs,
                   flashVars, nq, answers, pick, data, envVars>>

\* Quiz.reset ("Nouveau tirage"): seed changes, so pick is drawn again.
Reset ==
    /\ ~crashed
    /\ tab = "quiz"
    /\ answers' = EmptyMap
    /\ showRes' = FALSE
    /\ recorded' = <<>>
    /\ pick' \in PickOf(Filtered(qas, section), nq)
    /\ UNCHANGED <<qas, lang, section, tab, fetch, crashed, storeVars, flashVars,
                   nq, data, envVars>>

(***************************************************************************)
(* App: ProgressDashboard, the clock                                       *)
(***************************************************************************)
\* The interval of ProgressDashboard: setData(loadJSON(LS_KEYS.progress, {})).
RefreshDashboard ==
    /\ ~crashed
    /\ tab = "progress"
    /\ data' = lsProgress
    /\ UNCHANGED <<qas, lang, section, tab, fetch, crashed, storeVars, flashVars,
                   quizVars, envVars>>

HalfDay == 12 * HourU

\* Time passes: half a day, at most limit times.
Tick(limit) ==
    /\ now < Epoch2024 + limit * HalfDay
    /\ now' = now + HalfDay
    /\ UNCHANGED <<qas, lang, section, tab, fetch, crashed, storeVars, flashVars,
                   quizVars, data, tz>>

(***************************************************************************)
(* The app specification                                                   *)
(***************************************************************************)
PureIdle == call = [fn |-> "none"] /\ ret = <<>>

\* The state after mount with stored bank ls in zone z: the Flashcards tab,
\* empty ledger and review state, the auto-load started when the bank is
\* empty.
Mounted(ls, z) ==
    /\ lsBank = ls
    /\ qas = LoadBank(ls)
    /\ lang = "fr"
    /\ section = <<>>
    /\ lsPrefs = [lang |-> "fr", section |-> <<>>]
    /\ tab = "flash"
    /\ fetch = IF Len(LoadBank(ls)) = 0 THEN "pending" ELSE "none"
    /\ crashed = FALSE
    /\ lsProgress = EmptyMap
    /\ lsSrs = EmptyMap
    /\ index = 0
    /\ showAnswer = FALSE
    /\ ordered = Ordered(LoadBank(ls), EmptyMap)
    /\ nq = DefaultNq
    /\ answers = EmptyMap
    /\ showRes = FALSE
    /\ pick = <<>>
    /\ recorded = <<>>
    /\ data = EmptyMap
    /\ now = Epoch2024
    /\ tz = z
    /\ steps = 0

NoSession == session = EmptyMap

Init ==
    /\ \E ls \in {<<>>, <<parseCSVSemicolon(ServedFile)>>} : Mounted(ls, UtcZone)
    /\ NoSession
    /\ PureIdle

NqChoices == {MinNq, DefaultNq}

\* One operation of a run that counts its operations.
Counted(A) ==
    /\ steps < MaxOps
    /\ steps' = steps + 1
    /\ A
    /\ UNCHANGED <<session, pureVars>>

Next ==
    \/ \E txt \in ServedTexts : Counted(FetchOk(txt))
    \/ Counted(FetchFail)
    \/ \E txt \in ImportTexts : Counted(OnFilePick(txt))
    \/ Counted(ResetProgress)
    \/ \E l \in {"fr", "en"} : Counted(SetLang(l))
    \/ \E sec \in Sections(qas) \cup {<<>>} : Counted(SetSection(sec))
    \/ \E t \in {"flash", "quiz", "progress"} : Counted(SetTab(t))
    \/ \E ease \in 1..3 : Counted(Mark(ease))
    \/ Counted(ShowAnswer)
    \/ \E n \in NqChoices : Counted(SetNq(n))
    \/ \E i \in 1..Len(pick) :
          \E opt \in {Good(pick[i], lang), Incorrect1(pick[i], lang)} :
             Counted(SelectAnswer(i, opt))
    \/ Counted(Submit)
    \/ Counted(Reset)
    \/ Counted(RefreshDashboard)
    \/ Counted(Tick(MaxTicks))

Spec == Init /\ [][Next]_vars

\* The app left alone: what the specifications of one function start from
\* and leave unchanged.
AppIdle == Mounted(<<>>, UtcZone) /\ NoSession

(***************************************************************************)
(* Specification of the streak: the app with a stored bank in one of the   *)
(* time zones, graded and submitted over several days                      *)
(***************************************************************************)
InitStreak ==
    /\ \E z \in TimeZones : Mounted(<<parseCSVSemicolon(ServedFile)>>, z)
    /\ NoSession
    /\ PureIdle

\* Time passes between the operations of the run.
Elapse ==
    /\ Tick(MaxHalfDays)
    /\ UNCHANGED <<steps, session, pureVars>>

NextStreak ==
    \/ \E ease \in 1..3 : Counted(Mark(ease))
    \/ \E t \in {"flash", "quiz", "progress"} : Counted(SetTab(t))
    \/ Counted(Submit)
    \/ Counted(RefreshDashboard)
    \/ Counted(ResetProgress)
    \/ Elapse

SpecStreak == InitStreak /\ [][NextStreak]_vars

(***************************************************************************)
(* Specification of one flashcard session: Flashcards mounted once over a  *)
(* stored bank, the cards graded one after the other                       *)
(***************************************************************************)
\* session[id]: the ease the card was last marked with in this session (0:
\* not marked yet), the times it was put on screen, and whether it has been
\* on screen again since it was last marked.
OnScreen(ses, id) ==
    Put(ses, id,
        IF id \in DOMAIN ses
        THEN [ses[id] EXCEPT !.shows = @ + 1, !.back = ses[id].ease # 0]
        ELSE [ease |-> 0, shows |-> 1, back |-> FALSE])

InitFlash ==
    /\ Mounted(<<parseCSVSemicolon(ServedFile)>>, UtcZone)
    /\ session = OnScreen(EmptyMap, ShownCard["question_id"])
    /\ PureIdle

\* mark(ease) and the card the next render puts on screen.
MarkInSession(ease) ==
    /\ Mark(ease)
    /\ LET id == ShownCard["question_id"]
           marked == Put(session, id, [session[id] EXCEPT !.ease = ease,
                                                          !.back = FALSE])
       IN  session' = OnScreen(marked, ordered'[index' + 1]["question_id"])
    /\ UNCHANGED <<steps, pureVars>>

ShowAnswerInSession == ShowAnswer /\ UNCHANGED <<steps, session, pureVars>>

ElapseInSession == Tick(MaxTicks) /\ UNCHANGED <<steps, session, pureVars>>

NextFlash ==
    \/ \E ease \in 1..3 : MarkInSession(ease)
    \/ ShowAnswerInSession
    \/ ElapseInSession

SpecFlash == InitFlash /\ [][NextFlash]_vars

(***************************************************************************)
(* Specification of the parser alone: every text of at most MaxTextLen     *)
(* tokens over ParseAlphabet is parsed once.                               *)
(***************************************************************************)
ParseAlphabet == {LF, CR, SEMI, SP, "question_id", "question_english", "x"}

TextsUpTo(n) == UNION {[1..k -> ParseAlphabet] : k \in 0..n}

InitParse ==
    /\ AppIdle
    /\ call \in {[fn |-> "parse", text |-> t] : t \in TextsUpTo(MaxTextLen)}
    /\ ret = <<>>

Parse ==
    /\ call.fn = "parse"
    /\ ret = <<>>
    /\ UNCHANGED <<appVars, steps, session>>
    /\ ret' = <<parseCSVSemicolon(call.text)>>
    /\ UNCHANGED call

NextParse == Parse

SpecParse == InitParse /\ [][NextParse]_vars

(***************************************************************************)
(* Specification of the ordering alone: every bank of at most MaxCards     *)
(* questions over OrderIds, every review state over OrderTimes.            *)
(***************************************************************************)
OrderIds == {<<"B-001-001", "-001">>, <<"B-001-001", "-002">>, <<"B-001-002", "-001">>}

\* The start instant and instants 1, 12 and 24 days later.
OrderTimes == {Epoch2024, Epoch2024 + DayU, Epoch2024 + 12 * DayU, Epoch2024 + 24 * DayU}

BlankRest == [f \in FieldNames |-> <<>>]

SrsStates(ids, times) ==
    UNION {[rated -> [ease : 1..3, lastSeen : {toISOString(t) : t \in times}]] :
              rated \in SUBSET ids}

InitOrder ==
    /\ AppIdle
    /\ call \in {[fn |-> "order",
                  qas |-> [i \in 1..Len(b) |-> QARecord(b[i], BlankRest)],
                  srs |-> s] :
                    b \in UNION {[1..n -> OrderIds] : n \in 0..MaxCards},
                    s \in SrsStates(OrderIds, OrderTimes)}
    /\ ret = <<>>

Order ==
    /\ call.fn = "order"
    /\ ret = <<>>
    /\ UNCHANGED <<appVars, steps, session>>
    /\ ret' = <<Ordered(call.qas, call.srs)>>
    /\ UNCHANGED call

NextOrder == Order

SpecOrder == InitOrder /\ [][NextOrder]_vars

(***************************************************************************)
(* Specification of the draw alone: every bank of at most MaxDraw records  *)
(* over DrawIds (identifiers may repeat), every nq of the range input.     *)
(***************************************************************************)
DrawIds == {<<"B-001-001", "-001">>, <<"B-001-001", "-002">>}

InitDraw ==
    /\ AppIdle
    /\ call \in {[fn |-> "draw",
                  given |-> [i \in 1..Len(b) |-> QARecord(b[i], BlankRest)],
                  arr |-> [i \in 1..Len(b) |-> QARecord(b[i], BlankRest)],
                  nq |-> n] :
                    b \in UNION {[1..k -> DrawIds] : k \in 0..MaxDraw},
                    n \in MinNq..MaxNq}
    /\ ret = <<>>

Draw ==
    /\ call.fn = "draw"
    /\ ret = <<>>
    /\ UNCHANGED <<appVars, steps, session>>
    /\ \E a \in shuffle(call.arr) :
          /\ ret' = <<[shuffled |-> a, pick |-> Slice(a, Min(call.nq, Len(call.arr)))]>>
          /\ call' = [call EXCEPT !.arr = ArgAfterShuffle(call.arr, a)]

NextDraw == Draw

SpecDraw == InitDraw /\ [][NextDraw]_vars

(***************************************************************************)
(* C5: what the parser returns.                                            *)
(***************************************************************************)
\* The positions of the semicolons of a line, and its k-th column read off
\* them: the tokens between the (k-1)-th and the k-th semicolon.
SemiPositions(line) == {i \in 1..Len(line) : line[i] = SEMI}

ColumnCount(line) == Cardinality(SemiPositions(line)) + 1

ColumnAt(line, k) ==
    LET before == {i \in SemiPositions(line) :
                      Cardinality({j \in SemiPositions(line) : j <= i}) = k - 1}
        after  == {i \in SemiPositions(line) :
                      Cardinality({j \in SemiPositions(line) : j <= i}) = k}
        from   == IF before = {} THEN 1 ELSE (CHOOSE i \in before : TRUE) + 1
        to     == IF after = {} THEN Len(line) ELSE (CHOOSE i \in after : TRUE) - 1
    IN  SubSeq(line, from, to)

\* The record the claim describes for one data line: each field is the
\* trimmed column at the position of the first header column of that name,
\* the empty string when the header has no such column.
ExpectedRow(headerLine, line) ==
    [f \in FieldNames |->
        LET named == {k \in 1..ColumnCount(headerLine) :
                         Trim(ColumnAt(headerLine, k)) = <<f>>}
        IN  IF named = {} THEN <<>>
            ELSE LET k == CHOOSE k \in named : \A m \in named : k <= m
                 IN  IF k <= ColumnCount(line) THEN Trim(ColumnAt(line, k)) ELSE <<>>]

\* C5 as claimed: with at least two non-blank lines the result holds, in
\* input order, exactly one record for every non-blank line after the header
\* (no data line is dropped); with fewer the result is empty.
C5_EveryDataLineKept ==
    (call.fn = "parse" /\ ret # <<>>) =>
        LET lines == NonBlankLines(call.text)
        IN  IF Len(lines) < 2 THEN ret[1] = <<>>
            ELSE /\ Len(ret[1]) = Len(lines) - 1
                 /\ \A i \in 1..Len(ret[1]) : ret[1][i] = ExpectedRow(lines[1], lines[i + 1])

\* A data line is kept when it has at least as many columns as the header
\* and its question_id field is not empty.
KeptLine(headerLine, line) ==
    /\ ColumnCount(line) >= ColumnCount(headerLine)
    /\ ExpectedRow(headerLine, line)["question_id"] # <<>>

\* C5 as amended: with at least two non-blank lines the result holds, in
\* input order, exactly one record for every non-blank line after the header
\* that has at least as many columns as the header and a non-empty trimmed
\* question_id; the other data lines are dropped silently, duplicate
\* identifiers are kept; with fewer than two non-blank lines the result is
\* empty.
C5_KeptLinesInOrder ==
    (call.fn = "parse" /\ ret # <<>>) =>
        LET lines == NonBlankLines(call.text)
        IN  IF Len(lines) < 2 THEN ret[1] = <<>>
            ELSE LET kept == SelectSeq(Tail(lines),
                                       LAMBDA l : KeptLine(lines[1], l))
                 IN  /\ Len(ret[1]) = Len(kept)
                     /\ \A i \in 1..Len(ret[1]) : ret[1][i] = ExpectedRow(lines[1], kept[i])

\* C5 witness: a text was parsed of which one data line gave a record and
\* another data line was dropped.
C5_Witness ==
    /\ call.fn = "parse"
    /\ ret # <<>>
    /\ Len(ret[1]) >= 1
    /\ Len(ret[1]) < Len(NonBlankLines(call.text)) - 1

(***************************************************************************)
(* C6: the review order as a sort by (ease, lastSeen)                      *)
(***************************************************************************)
Perms(n) == {p \in [1..n -> 1..n] : \A i, j \in 1..n : p[i] = p[j] => i = j}

EaseOf(q, srs) ==
    IF q["question_id"] \in DOMAIN srs THEN srs[q["question_id"]].ease ELSE 1

LastSeenOf(q, srs) ==
    IF q["question_id"] \in DOMAIN srs THEN getTime(srs[q["question_id"]].lastSeen) ELSE 0

\* a comes before b in the order by (ease, lastSeen), bank position last.
LexBefore(qs, srs, a, b) ==
    \/ EaseOf(qs[a], srs) < EaseOf(qs[b], srs)
    \/ /\ EaseOf(qs[a], srs) = EaseOf(qs[b], srs)
       /\ \/ LastSeenOf(qs[a], srs) < LastSeenOf(qs[b], srs)
          \/ LastSeenOf(qs[a], srs) = LastSeenOf(qs[b], srs) /\ a < b

\* C6 as claimed: the review order is a permutation of the bank in which a
\* precedes b whenever ease(a) < ease(b), whatever the two last-seen
\* instants; with equal eases the earlier lastSeen precedes; with both
\* equal the two keep their bank order.
C6_SortedByEaseThenLastSeen ==
    (call.fn = "order" /\ ret # <<>>) =>
        \E p \in Perms(Len(call.qas)) :
            /\ Len(ret[1]) = Len(call.qas)
            /\ \A i \in 1..Len(ret[1]) : ret[1][i] = call.qas[p[i]]
            /\ \A i, j \in 1..Len(ret[1]) :
                   i < j => LexBefore(call.qas, call.srs, p[i], p[j])

(***************************************************************************)
(* C8: the draw is a sample without replacement                            *)
(***************************************************************************)
Injections(n, m) == {p \in [1..n -> 1..m] : \A i, j \in 1..n : p[i] = p[j] => i = j}

\* s holds each of its records exactly as many times as t does.
SameRecords(s, t) ==
    /\ Len(s) = Len(t)
    /\ \A x \in {s[i] : i \in 1..Len(s)} \cup {t[i] : i \in 1..Len(t)} :
          Cardinality({i \in 1..Len(s) : s[i] = x})
              = Cardinality({i \in 1..Len(t) : t[i] = x})

\* s holds no record more often than t does.
SubRecords(s, t) ==
    \A x \in {s[i] : i \in 1..Len(s)} :
        Cardinality({i \in 1..Len(s) : s[i] = x})
            <= Cardinality({i \in 1..Len(t) : t[i] = x})

\* C8: pick has exactly min(nq, |bank|) entries, every entry is a record of
\* the bank and no bank position is drawn twice (pick holds no record more
\* often than the bank does); shuffle returns a permutation of its argument
\* and leaves the argument as it was.
C8_SampleWithoutReplacement ==
    (call.fn = "draw" /\ ret # <<>>) =>
        /\ Len(ret[1].pick) = Min(call.nq, Len(call.given))
        /\ SubRecords(ret[1].pick, call.given)
        /\ SameRecords(ret[1].shuffled, call.given)
        /\ call.arr = call.given

\* C8 witness: a draw of fewer questions than the bank holds, from a bank in
\* which an identifier repeats, that does not start with the bank's first
\* record.
C8_Witness ==
    /\ call.fn = "draw"
    /\ ret # <<>>
    /\ Len(ret[1].pick) = call.nq
    /\ Len(ret[1].pick) < Len(call.given)
    /\ \E i, j \in 1..Len(call.given) : i # j /\ call.given[i] = call.given[j]
    /\ ret[1].pick[1] # call.given[1]

(***************************************************************************)
(* C1: the streak stored by bumpProgress                                   *)
(***************************************************************************)
\* The consecutive calendar days, counted backwards from day, whose ledger
\* entry exists with seen > 0.
RECURSIVE ConsecutiveDays(_, _)
ConsecutiveDays(cur, day) ==
    IF DateKey(day) \notin DOMAIN cur \/ cur[DateKey(day)].seen = 0 THEN 0
    ELSE 1 + ConsecutiveDays(cur, day - 1)

\* C1: the streak stored on today's ledger entry is the number of
\* consecutive calendar days, counted backwards from today (the local date)
\* with no day skipped or counted twice, whose entry exists with seen > 0.
C1_StreakIsConsecutiveDays ==
    LET today == todayKey(tz, now)
    IN  today \in DOMAIN lsProgress =>
            lsProgress[today].streak = ConsecutiveDays(lsProgress, today[2])

(***************************************************************************)
(* C2: the streak shown by ProgressDashboard                               *)
(***************************************************************************)
\* The days with activity of a ledger, as day numbers.
ActiveDays(d) == {k[2] : k \in {x \in DOMAIN d : d[x].seen > 0}}

\* The most recent of a non-empty set of days.
MostRecent(days) == CHOOSE x \in days : \A y \in days : y <= x

\* C2 as claimed: the streak shown is the count of consecutive days with
\* activity ending at the most recent day with activity, also when that day
\* is earlier than today.
C2_ShownIsStreakOfMostRecentDay ==
    tab = "progress" =>
        ShownStreak(tz, now, data)
            = IF ActiveDays(data) = {} THEN 0
              ELSE ConsecutiveDays(data, MostRecent(ActiveDays(data)))

\* C2 as amended: the streak shown is the one stored on today's entry of the
\* dashboard's copy of the ledger, which is what the backward walk of
\* bumpProgress counts from today on that copy, and it is 0 when the copy
\* has no entry for today: when the most recent day with activity is
\* earlier than today, 0 is shown.
C2_ShownIsTodaysStoredStreak ==
    LET today == todayKey(tz, now)
    IN  tab = "progress" =>
            ShownStreak(tz, now, data)
                = IF today \in DOMAIN data
                  THEN StreakWalk(tz, data, DateOfKey(today))
                  ELSE 0

\* C2 witness: the dashboard is open, its copy of the ledger has activity
\* on an earlier day and no entry for today, and the streak shown is 0.
C2_Witness ==
    /\ tab = "progress"
    /\ ActiveDays(data) # {}
    /\ todayKey(tz, now) \notin DOMAIN data
    /\ MostRecent(ActiveDays(data)) < todayKey(tz, now)[2]
    /\ ShownStreak(tz, now, data) = 0

(***************************************************************************)
(* C3: what changes the daily ledger                                       *)
(***************************************************************************)
\* The ledger after the step is the ledger before it with n added to
\* today's seen and c to today's correct, every other date as it was.
LedgerAdds(n, c) ==
    LET today == todayKey(tz, now)
        seen0 == IF today \in DOMAIN lsProgress THEN lsProgress[today].seen ELSE 0
        corr0 == IF today \in DOMAIN lsProgress THEN lsProgress[today].correct ELSE 0
    IN  /\ DOMAIN lsProgress' = DOMAIN lsProgress \cup {today}
        /\ lsProgress'[today].seen = seen0 + n
        /\ lsProgress'[today].correct = corr0 + c
        /\ \A k \in DOMAIN lsProgress \ {today} : lsProgress'[k] = lsProgress[k]

\* The picked questions answered correctly, counted one by one; a question
\* without a selected answer is wrong.
RECURSIVE RightAnswers(_, _, _)
RightAnswers(picked, ans, l) ==
    IF picked = <<>> THEN 0
    ELSE LET q   == Head(picked)
             sel == IF q["question_id"] \in DOMAIN ans
                    THEN <<ans[q["question_id"]]>> ELSE <<>>
             ok  == sel # <<>> /\ sel[1] = (IF l = "fr" THEN q["correct_answer_french"]
                                             ELSE q["correct_answer_english"])
         IN  (IF ok THEN 1 ELSE 0) + RightAnswers(Tail(picked), ans, l)

MarkAndSubmitAddToToday ==
    /\ \A ease \in 1..3 : Mark(ease) => LedgerAdds(1, IF ease >= 2 THEN 1 ELSE 0)
    /\ Submit => LedgerAdds(Len(pick), RightAnswers(pick, answers, lang))

\* C3 as claimed: the ledger is changed only by flashcard grading and quiz
\* submission; mark(ease) adds 1 to today's seen and 1 to today's correct
\* iff ease >= 2, submit adds pick.length and the number of correctly
\* answered picked questions, every other date is left as it was.
C3_OnlyMarkAndSubmit ==
    [][ /\ MarkAndSubmitAddToToday
        /\ lsProgress' # lsProgress => (\E ease \in 1..3 : Mark(ease)) \/ Submit
      ]_vars

\* C3 as amended: the ledger is changed only by flashcard grading, quiz
\* submission and resetProgress; mark and submit change only today's entry,
\* by the amounts above, and leave every other date as it was; resetProgress
\* removes the whole ledger.
C3_MarkSubmitOrReset ==
    [][ /\ MarkAndSubmitAddToToday
        /\ lsProgress' # lsProgress =>
              \/ \E ease \in 1..3 : Mark(ease)
              \/ Submit
              \/ ResetProgress /\ lsProgress' = EmptyMap
      ]_vars

\* C3 witness: the ledger holds two dates and a submit of two questions, one
\* of them right, was recorded today.
C3_Witness ==
    /\ Cardinality(DOMAIN lsProgress) = 2
    /\ recorded # <<>>
    /\ recorded[1].seen = 2
    /\ recorded[1].correct = 1
    /\ todayKey(tz, now) \in DOMAIN lsProgress
    /\ lsProgress[todayKey(tz, now)].seen = 2

(***************************************************************************)
(* C4: what changes the review state                                       *)
(***************************************************************************)
\* mark(ease) sets the shown card's entry and leaves the others.
MarkSetsShownCard ==
    \A ease \in 1..3 :
        Mark(ease) =>
            LET id == ordered[index + 1]["question_id"]
            IN  /\ DOMAIN lsSrs' = DOMAIN lsSrs \cup {id}
                /\ lsSrs'[id] = [ease |-> ease, lastSeen |-> toISOString(now)]
                /\ \A other \in DOMAIN lsSrs \ {id} : lsSrs'[other] = lsSrs[other]

\* C4 as claimed: the review state is changed only by mark, which sets the
\* shown card's entry to {ease, lastSeen: now} and leaves every other entry;
\* no other operation, resetProgress included, changes it.
C4_OnlyMark ==
    [][ /\ MarkSetsShownCard
        /\ lsSrs' # lsSrs => \E ease \in 1..3 : Mark(ease)
      ]_vars

\* C4 as amended: the review state is changed only by mark, as above, and by
\* resetProgress, which removes it whole; no other operation changes it.
C4_MarkOrReset ==
    [][ /\ MarkSetsShownCard
        /\ lsSrs' # lsSrs =>
              \/ \E ease \in 1..3 : Mark(ease)
              \/ ResetProgress /\ lsSrs' = EmptyMap
      ]_vars

\* C4 witness: two cards were graded, hard and easy, and both entries are
\* there after a quiz was submitted.
C4_Witness ==
    /\ \E a, b \in DOMAIN lsSrs : lsSrs[a].ease = 1 /\ lsSrs[b].ease = 3
    /\ recorded # <<>>

(***************************************************************************)
(* C7: hard cards come back more often                                     *)
(***************************************************************************)
\* C7: in a flashcard session over a fixed bank of at least two cards, a
\* card marked hard (ease 1) is shown again no later than a card marked easy
\* (ease 3), and is shown at least as many times over the session.
C7_HardComesBackFirst ==
    \A a, b \in DOMAIN session :
        (session[a].ease = 1 /\ session[b].ease = 3) =>
            /\ session[b].back => session[a].back
            /\ session[a].shows >= session[b].shows

(***************************************************************************)
(* C9: the score shown and the score recorded                              *)
(***************************************************************************)
Shown == ResultsSummary(pick, answers, lang)

\* C9 as claimed: while the results are shown, the score shown (correct /
\* total) equals the amounts the submit recorded, whatever was done since.
C9_ShownAlwaysRecorded ==
    (tab = "quiz" /\ showRes) =>
        /\ recorded # <<>>
        /\ Shown = [total |-> recorded[1].seen, correct |-> recorded[1].correct]

\* C9 as amended: submit records pick.length as seen and, as correct, the
\* number of picked questions whose selected answer is the correct answer
\* in the language of that moment, a question without an answer being wrong;
\* the score shown equals the recorded amounts as long as answers, language
\* and pick are those of the submit, and is recomputed from them when they
\* change.
C9_ShownIsRecordedUntilChange ==
    (tab = "quiz" /\ showRes) =>
        /\ recorded # <<>>
        /\ recorded[1].seen = Len(recorded[1].pick)
        /\ recorded[1].correct
              = RightAnswers(recorded[1].pick, recorded[1].answers, recorded[1].lang)
        /\ Shown = [total |-> Len(pick), correct |-> RightAnswers(pick, answers, lang)]
        /\ (pick = recorded[1].pick /\ answers = recorded[1].answers
                /\ lang = recorded[1].lang) =>
              Shown = [total |-> recorded[1].seen, correct |-> recorded[1].correct]

\* C9 witness: a submit recorded one right answer out of two, one question
\* unanswered, and the answer was changed afterwards: the score shown is 0.
C9_Witness ==
    /\ tab = "quiz"
    /\ showRes
    /\ recorded # <<>>
    /\ recorded[1].seen = 2
    /\ recorded[1].correct = 1
    /\ Cardinality(DOMAIN recorded[1].answers) = 1
    /\ Shown.correct = 0

(***************************************************************************)
(* C10: what changes the bank                                              *)
(***************************************************************************)
\* C10: an import whose text parses to zero records and an auto-load whose
\* fetch fails change neither the bank in memory nor the stored bank; the
\* two change only in a load (an import that parses to records, a fetch that
\* succeeds), which replaces the stored bank, and the bank in memory while
\* the tree is mounted, by all that was parsed; grading, quiz and reset
\* operations change no record of either.
C10_BankChangesOnlyByLoad ==
    [][ /\ \A txt \in ImportTexts :
              (OnFilePick(txt) /\ Len(parseCSVSemicolon(txt)) = 0) =>
                  UNCHANGED <<qas, lsBank>>
        /\ FetchFail => UNCHANGED <<qas, lsBank>>
        /\ (qas' # qas \/ lsBank' # lsBank) =>
              \E txt \in ImportTexts \cup ServedTexts :
                  /\ (OnFilePick(txt) /\ Len(parseCSVSemicolon(txt)) > 0) \/ FetchOk(txt)
                  /\ lsBank' = <<parseCSVSemicolon(txt)>>
                  /\ crashed \/ qas' = parseCSVSemicolon(txt)
      ]_vars

\* C10 witness: the bank in memory and the stored bank are the imported
\* file, the auto-load is settled and a card has been graded.
C10_Witness ==
    /\ qas = parseCSVSemicolon(UserFile)
    /\ lsBank = <<qas>>
    /\ fetch = "settled"
    /\ lsSrs # EmptyMap

(***************************************************************************)
(* C11: the card Flashcards renders                                        *)
(***************************************************************************)
\* C11: whenever Flashcards renders a card from a non-empty order, index <
\* ordered.length, so that ordered[index] is a record; also in the render
\* that follows a change of the filtered bank to a shorter list after mark
\* advanced index.
C11_IndexInsideOrder ==
    (tab = "flash" /\ ordered # <<>>) =>
        /\ index < Len(ordered)
        /\ ~crashed

(***************************************************************************)
(* C12: the auto-load and a manual import                                  *)
(***************************************************************************)
\* The bank in memory and the stored bank are the records of the imported
\* file (no served text parses to these records in this order, so only an
\* import sets them).
BankIsImported ==
    /\ qas = parseCSVSemicolon(UserFile)
    /\ lsBank = <<parseCSVSemicolon(UserFile)>>

\* C12: a manual import is never overwritten by the auto-load: once the
\* import has set the bank, the bank in memory and the stored bank stay the
\* imported records until the next manual import, however the fetch started
\* at mount interleaves.
C12_ImportNotOverwritten ==
    [][ BankIsImported =>
            \/ UNCHANGED <<qas, lsBank>>
            \/ \E txt \in ImportTexts : OnFilePick(txt)
      ]_vars

(***************************************************************************)
(* C13: a draw counted once                                                *)
(***************************************************************************)
\* The draw on screen has been submitted since the last new draw.
DrawAlreadySubmitted ==
    /\ showRes
    /\ recorded # <<>>
    /\ recorded[1].pick = pick

\* C13: a quiz draw is counted in the ledger at most once: between two new
\* draws, a submit of a draw that was already submitted adds nothing to
\* today's seen and correct.
C13_DrawCountedOnce ==
    [][ (DrawAlreadySubmitted /\ Submit) => UNCHANGED lsProgress ]_vars

(***************************************************************************)
(* C14: the entries of the ledger                                          *)
(***************************************************************************)
\* C14 as claimed: every ledger entry has 0 <= correct <= seen, and today's
\* entry has streak >= 1 whenever it exists.
C14_TodayStreakPositive ==
    /\ \A k \in DOMAIN lsProgress :
          0 <= lsProgress[k].correct /\ lsProgress[k].correct <= lsProgress[k].seen
    /\ todayKey(tz, now) \in DOMAIN lsProgress =>
          lsProgress[todayKey(tz, now)].streak >= 1

\* C14 as amended: every ledger entry has 0 <= correct <= seen, and an
\* entry has streak >= 1 exactly when its seen > 0: today's entry written by
\* submissions of empty draws only has seen = 0 and streak = 0.
C14_StreakPositiveIffSeen ==
    \A k \in DOMAIN lsProgress :
        /\ 0 <= lsProgress[k].correct
        /\ lsProgress[k].correct <= lsProgress[k].seen
        /\ lsProgress[k].streak >= 0
        /\ lsProgress[k].streak >= 1 <=> lsProgress[k].seen > 0

\* C14 witness: an empty draw was submitted today and today's entry has
\* seen = 0 and streak = 0.
C14_Witness ==
    /\ recorded # <<>>
    /\ recorded[1].pick = <<>>
    /\ todayKey(tz, now) \in DOMAIN lsProgress
    /\ lsProgress[todayKey(tz, now)].seen = 0
    /\ lsProgress[todayKey(tz, now)].streak = 0

====
